---- MODULE Spec2Model ----
(***************************************************************************)
(* Model of pod_manager.py: the RunPod lifecycle CLI (PodManager and main). *)
(* One run of the script is one pass from "idle" to "exited"; the runs of   *)
(* one behaviour are for one role.  The provider (RunPod REST and GraphQL   *)
(* API) is the environment: it answers every request nondeterministically,  *)
(* except that which pods exist (account) changes only by the requests of   *)
(* the script.  Time is counted in seconds and only inside                  *)
(* wait_for_status, as time.time() - start_time.                            *)
(***************************************************************************)
EXTENDS Integers, Sequences, FiniteSets, TLC

\* ---------------------------------------------------------------- values

\* Python's None, for Optional[str] values
None == "None"
\* value of a history variable before the statement it records has run
Unread == "-"

\* wait_for_status(..., timeout: int = 300); no caller passes another value
DefaultTimeout == 300
\* time.sleep(5) at the end of every polling iteration
PollInterval == 5
\* requests.request(..., timeout=30)
RequestTimeout == 30
\* affordable_gpus[:5]
TopN == 5
\* config.setdefault('MAX_GPU_PRICE', '0.30'), in cents
DefaultMaxPrice == 30

\* longest catalogue whose offerings are enumerated freely
MaxCatalogue == 3
\* most pods created by deploy_pod that are alive at the same time
MaxDeployed == 1
\* last reading of the clock of the API process, in check intervals
MaxClock == 4
\* most _scheduler_loop threads created in one process
MaxThreads == 3

\* desiredStatus values the provider reports; CREATED stands for every value
\* the script does not name
RawStatuses == {"RUNNING", "EXITED", "STOPPED", "FAILED", "ERROR", "CREATED"}
StatusValues == RawStatuses \cup {None}

\* how long one status request takes before it is answered
Latencies == {0, PollInterval, RequestTimeout}

PodTypes == {"main", "branch"}
Actions == {"start", "stop", "restart", "status", "deploy", "terminate"}

\* the fields ask reads with data.get; <<>> is a field the body lacks
Fields == {"user_principal", "realm_principal", "question"}
FieldValues == {<<>>, <<"">>, <<"text">>}
\* request.json of a POST /api/ask
Bodies == [user_principal : FieldValues, realm_principal : FieldValues,
           question : FieldValues, realm_status : BOOLEAN, stream : BOOLEAN]
\* no request is being handled
NoBody == [user_principal |-> <<>>, realm_principal |-> <<>>,
           question |-> <<>>, realm_status |-> FALSE, stream |-> FALSE]
\* ask has not returned
NoResponse == [code |-> 0, error |-> "None"]

\* values of INACTIVITY_TIMEOUT_SECONDS in the environment, in check
\* intervals; 0 is the default and disables the monitor
TimeoutValues == {0, 2}

\* answers to GET /pods/<id>: 200 with a body (desiredStatus possibly
\* missing), 404 when no such pod exists, 500 when the provider fails
StatusReplies ==
    [code : {200}, desiredStatus : StatusValues]
        \cup [code : {404, 500}, desiredStatus : {None}]

\* status codes answered to POST <id>/start, POST <id>/stop, DELETE <id>
MutationCodes == {200, 202, 204, 404, 500}

\* ---------------------------------------------------------------- state

VARIABLES
    \* ---- api.py: one request to POST /api/ask
    ask_pc,                 \* position of the handler
    body,                   \* the JSON body of the request
    realm_status,           \* local of ask: a realm status is at hand
    llm_called,             \* requests.post to Ollama's /api/generate was made
    conversation_stored,    \* db_client.store_conversation was called
    ask_response,           \* what ask returned: status code and error field
    \* ---- api.py: the inactivity monitor
    main_pc,                \* position of the __main__ block
    INACTIVITY_TIMEOUT_SECONDS,
    now,                    \* time.time(), in check intervals
    last_activity_time,
    wake_at,                \* when the monitor's time.sleep ends
    mon_pc,                 \* position of the monitor_inactivity thread
    shutdown_initiated,
    stop_pod_calls,         \* history: calls of PodManager.stop_pod
    stop_observed,          \* history: what the check before the call saw
    \* ---- realm_status_scheduler.py
    sched_pc,               \* the global scheduler instance exists or not
    enabled,
    realms_configured,      \* realms_config is not empty
    running,
    loop_pc,                \* position of every _scheduler_loop thread
    \* ---- pod_manager.py
    account,                \* the provider's live pods of this role: the
                            \* one SERVER_HOST_<TYPE> names, and how many
                            \* that deploy_pod created
    pod_id,                 \* local of every method: the pod it addresses
    any_request,            \* history: a provider request was issued
    deploy_called,          \* history: deploy_pod was entered
    found_stopped,          \* history: the first status stop_pod read was
                            \* EXITED or STOPPED
    delete_code,            \* history: the status code answered to DELETE
    pc,                     \* position of the running script
    action, pod_type, deploy_new_if_needed, verbose,   \* argparse results
    api_key,                \* <<>> when RUNPOD_API_KEY is found nowhere
    server_host,            \* config SERVER_HOST_<TYPE>, None when not set
    current_status,         \* local of start_pod / stop_pod / status_pod
    all_absent,             \* history: every status reply the running
                            \* method got so far was a 404
    stop_result,            \* what stop_pod returned to restart_pod
    wait_site,              \* which call of wait_for_status is running
    target_statuses,        \* its argument
    elapsed,                \* time.time() - start_time
    wait_ret,               \* its return value, <<>> while it runs
    hit_target,             \* history: a poll made before the timeout
                            \* returned a target status, none before it
                            \* having returned FAILED or ERROR
    saw_error,              \* history: a poll returned FAILED or ERROR
    poll_after_error,       \* history: a poll was issued after such a poll
    poll_late,              \* history: a poll was issued at elapsed >= timeout
    gpu_types,              \* deploy_pod: the catalogue the provider sent
    max_price,              \* deploy_pod: float(config['MAX_GPU_PRICE'])
    affordable_gpus,        \* deploy_pod: filtered, then sorted
    gpu_type_ids,           \* deploy_pod: ids sent with the create request
    provider,               \* what the provider did with the create request
    new_pod,                \* deploy_pod: <<>> or the pod the reply names
    calls,                  \* history: mutating provider requests, in order
    stdout,                 \* status tokens printed
    success,                \* main's variable, <<>> until an action returns
    exit_code,              \* <<>> while the script runs
    exit_via                \* "return", "sys_exit" or "exception"

argv == <<action, pod_type, deploy_new_if_needed, verbose>>
conf == <<api_key, server_host>>
status_vars == <<current_status, all_absent, stop_result>>
wait_vars == <<wait_site, target_statuses, elapsed, wait_ret,
               hit_target, saw_error, poll_after_error, poll_late>>
deploy_vars == <<gpu_types, max_price, affordable_gpus, gpu_type_ids,
                 provider, new_pod>>
out_vars == <<calls, stdout>>
exit_vars == <<success, exit_code, exit_via>>
hist_vars == <<any_request, deploy_called, found_stopped, delete_code>>
ask_vars == <<ask_pc, body, realm_status, llm_called, conversation_stored,
              ask_response>>
mon_vars == <<main_pc, INACTIVITY_TIMEOUT_SECONDS, now, last_activity_time,
              wake_at, mon_pc, shutdown_initiated, stop_pod_calls,
              stop_observed>>
sched_vars == <<sched_pc, enabled, realms_configured, running, loop_pc>>
service_vars == <<ask_vars, mon_vars, sched_vars>>
pod_vars == <<pc, argv, conf, status_vars, wait_vars, deploy_vars, out_vars,
              exit_vars, account, pod_id, hist_vars>>
vars == <<pod_vars, service_vars>>

\* ---------------------------------------------------------------- helpers

\* a mutating request: start, stop, delete, or create with its gpuTypeIds
Call(op) == [op |-> op, gpuTypeIds |-> <<>>]
CreateCall(ids) == [op |-> "create", gpuTypeIds |-> ids]
\* the provider before any create request has reached it
NoRequest == [fault |-> Unread, cheapest_available |-> 0]

\* a line printed on stdout for scripts to read
Token(v) == [kind |-> "token", value |-> v]
\* status_pod's verbose line, "Status: <status>"
StatusLine(v) == [kind |-> "line", value |-> v]

\* print(x) guarded by "if not self.verbose"
PrintToken(v) == stdout' = IF verbose THEN stdout ELSE Append(stdout, Token(v))

\* get_pod_status: desiredStatus of a 200 reply, None for anything else
get_pod_status(reply) ==
    IF reply.code = 200 THEN reply.desiredStatus ELSE None

\* _extract_pod_id: the part of the host name before the first '-'
HostParts == [h \in {"host"} |-> <<"cfgpod", "5000.proxy.runpod.net">>]
extract_pod_id(host) == HostParts[host][1]

\* the provider answers 404 exactly for a pod it does not have, and a 2xx
\* code only for one it has; it may fail with 500 at any time
CodePossible(code) ==
    IF code = 404 THEN ~account.configured
    ELSE IF code \in {200, 202, 204} THEN account.configured
    ELSE TRUE

\* the answers GET /pods/<id> can get now
PossibleStatusReplies == {r \in StatusReplies : CodePossible(r.code)}
\* the codes a start, stop or delete request can get now
PossibleMutationCodes == {c \in MutationCodes : CodePossible(c)}

\* the first lines of status_pod, stop_pod, start_pod and terminate_pod:
\* _get_server_host raises when the env file has no host for the role;
\* otherwise the pod id is taken from it and the first request goes out
ResolvePod ==
    IF server_host = None
    THEN UNCHANGED <<pod_id, any_request>>
    ELSE pod_id' = extract_pod_id(server_host) /\ any_request' = TRUE

\* sys.exit(1) inside _make_api_request / _make_graphql_request; SystemExit
\* passes every "except Exception"
SysExit ==
    /\ pc' = "exited"
    /\ exit_code' = <<1>>
    /\ exit_via' = "sys_exit"
    /\ UNCHANGED success

\* an exception that reaches main's "except Exception": print, sys.exit(1)
RaiseToMain ==
    /\ pc' = "exited"
    /\ exit_code' = <<1>>
    /\ exit_via' = "exception"
    /\ UNCHANGED success

\* main ending with sys.exit(0) whatever the action returned
ReturnToMainExitZero(r) ==
    /\ pc' = "exited"
    /\ success' = <<r>>
    /\ exit_code' = <<0>>
    /\ exit_via' = "return"

\* an action method returns r to main: sys.exit(0 if success else 1)
ReturnToMain(r) ==
    /\ pc' = "exited"
    /\ success' = <<r>>
    /\ exit_code' = <<IF r THEN 0 ELSE 1>>
    /\ exit_via' = "return"

\* stop_pod returns r: to restart_pod when that called it, else to main
StopReturn(r) ==
    IF action = "restart"
    THEN /\ pc' = "restart_pod"
         /\ stop_result' = <<r>>
         /\ UNCHANGED exit_vars
    ELSE ReturnToMain(r) /\ UNCHANGED stop_result

\* entering wait_for_status(pod_id, targets) from call site "site"
CallWait(site, targets) ==
    /\ pc' = "wait_for_status"
    /\ wait_site' = site
    /\ target_statuses' = targets
    /\ elapsed' = 0
    /\ wait_ret' = <<>>
    /\ hit_target' = FALSE
    /\ saw_error' = FALSE
    /\ poll_after_error' = FALSE
    /\ poll_late' = FALSE

\* the locals of wait_for_status once its caller has taken the result
ClearWait ==
    /\ wait_site' = Unread
    /\ target_statuses' = {}
    /\ elapsed' = 0
    /\ wait_ret' = <<>>
    /\ hit_target' = FALSE
    /\ saw_error' = FALSE
    /\ poll_after_error' = FALSE
    /\ poll_late' = FALSE

\* ---------------------------------------------------------------- main

\* api.py and realm_status_scheduler.py right after import: no request yet,
\* no monitor thread, no scheduler instance
ServicesIdle ==
    /\ ask_pc = "idle" /\ body = NoBody /\ realm_status = FALSE
    /\ llm_called = FALSE /\ conversation_stored = FALSE
    /\ ask_response = NoResponse
    /\ main_pc = "start" /\ INACTIVITY_TIMEOUT_SECONDS = 0
    /\ now = 0 /\ last_activity_time = 0 /\ wake_at = 0
    /\ mon_pc = "none" /\ shutdown_initiated = FALSE
    /\ stop_pod_calls = 0 /\ stop_observed = <<>>
    /\ sched_pc = "none" /\ enabled = FALSE /\ realms_configured = FALSE
    /\ running = FALSE /\ loop_pc = [t \in 1..MaxThreads |-> "unborn"]

Init ==
    /\ ServicesIdle
    /\ pc = "idle"
    /\ account \in [configured : BOOLEAN, deployed : {0}]
    /\ pod_id = None
    /\ any_request = FALSE /\ deploy_called = FALSE
    /\ found_stopped = FALSE /\ delete_code = <<>>
    /\ action = "status" /\ pod_type \in PodTypes
    /\ deploy_new_if_needed = FALSE /\ verbose = FALSE
    /\ api_key = <<>> /\ server_host = None
    /\ current_status = Unread /\ all_absent = TRUE /\ stop_result = <<>>
    /\ wait_site = Unread /\ target_statuses = {}
    /\ elapsed = 0 /\ wait_ret = <<>>
    /\ hit_target = FALSE /\ saw_error = FALSE
    /\ poll_after_error = FALSE /\ poll_late = FALSE
    /\ gpu_types = <<>> /\ max_price = 0 /\ affordable_gpus = <<>>
    /\ gpu_type_ids = <<>> /\ provider = NoRequest /\ new_pod = <<>>
    /\ calls = <<>> /\ stdout = <<>>
    /\ success = <<>> /\ exit_code = <<>> /\ exit_via = Unread

\* the dispatch with the status branch calling start_pod
EntryPointStatusStarts(act) ==
    CASE act = "start" -> "start_pod"
      [] act = "stop" -> "stop_pod"
      [] act = "restart" -> "stop_pod"
      [] act = "status" -> "start_pod"
      [] act = "deploy" -> "deploy_pod"
      [] act = "terminate" -> "terminate_pod"

\* the method main dispatches to; restart_pod starts by calling stop_pod
EntryPoint(act) ==
    CASE act = "start" -> "start_pod"
      [] act = "stop" -> "stop_pod"
      [] act = "restart" -> "stop_pod"
      [] act = "status" -> "status_pod"
      [] act = "deploy" -> "deploy_pod"
      [] act = "terminate" -> "terminate_pod"

\* the script has exited; the operator runs it again for the same role, in
\* a new process; the provider's pods stay as they are
NextRun ==
    /\ pc = "exited"
    /\ UNCHANGED service_vars
    /\ pc' = "idle"
    /\ UNCHANGED <<account, pod_type>>
    /\ pod_id' = None
    /\ any_request' = FALSE /\ deploy_called' = FALSE
    /\ found_stopped' = FALSE /\ delete_code' = <<>>
    /\ action' = "status"
    /\ deploy_new_if_needed' = FALSE /\ verbose' = FALSE
    /\ api_key' = <<>> /\ server_host' = None
    /\ current_status' = Unread /\ all_absent' = TRUE /\ stop_result' = <<>>
    /\ ClearWait
    /\ gpu_types' = <<>> /\ max_price' = 0 /\ affordable_gpus' = <<>>
    /\ gpu_type_ids' = <<>> /\ provider' = NoRequest /\ new_pod' = <<>>
    /\ calls' = <<>> /\ stdout' = <<>>
    /\ success' = <<>> /\ exit_code' = <<>> /\ exit_via' = Unread

\* main(): parse the arguments, construct PodManager (which reads the API
\* key and the env file), dispatch.  A new run of the script starts from a
\* fresh process; the runs of one behaviour are for one role.
Main ==
    /\ pc = "idle"
    /\ UNCHANGED service_vars
    /\ \E act \in Actions, dn \in BOOLEAN, vb \in BOOLEAN,
          key \in {<<>>, <<"key">>}, host \in {None, "host"} :
        /\ action' = act /\ UNCHANGED pod_type
        /\ deploy_new_if_needed' = dn /\ verbose' = vb
        /\ api_key' = key /\ server_host' = host
        /\ UNCHANGED <<status_vars, wait_vars, deploy_vars, out_vars,
                       account, pod_id, any_request, found_stopped,
                       delete_code>>
        /\ deploy_called' = (key # <<>> /\ act = "deploy")
        /\ IF key = <<>>
           THEN /\ pc' = "exited" /\ success' = <<>>
                /\ exit_code' = <<1>> /\ exit_via' = "exception"
           ELSE /\ pc' = EntryPoint(act) /\ success' = <<>>
                /\ exit_code' = <<>> /\ exit_via' = Unread

\* ---------------------------------------------------------------- status_pod

status_pod ==
    /\ pc = "status_pod"
    /\ UNCHANGED service_vars
    /\ ResolvePod
    /\ UNCHANGED <<account, deploy_called, found_stopped, delete_code>>
    /\ IF server_host = None
       THEN /\ RaiseToMain
            /\ UNCHANGED <<argv, conf, deploy_vars, status_vars, wait_vars, out_vars>>
       ELSE \/ \* the request fails in transport
               /\ SysExit
               /\ UNCHANGED <<argv, conf, deploy_vars, status_vars, wait_vars, out_vars>>
            \/ \E reply \in PossibleStatusReplies :
               LET status == get_pod_status(reply) IN
               /\ current_status' = status
               /\ all_absent' = (all_absent /\ reply.code = 404)
               /\ stdout' = Append(stdout, IF verbose THEN StatusLine(status)
                                                      ELSE Token(status))
               /\ ReturnToMain(TRUE)
               /\ UNCHANGED <<argv, conf, deploy_vars,
                              stop_result, wait_vars, calls>>

\* ---------------------------------------------------------------- wait_for_status

\* the loop condition written with <= : one more poll at the deadline
LoopGuardInclusive(e, timeout) == e <= timeout

\* "while time.time() - start_time < timeout"
LoopGuard(e, timeout) == e < timeout

\* the statuses that end a wait with False
ErrorStatuses == {"FAILED", "ERROR"}

\* an iteration without the FAILED / ERROR test
PollVerdictNoErrorTest(status, targets) ==
    IF status \in targets THEN "return_true" ELSE "sleep"

\* what one iteration does with the status it polled
PollVerdict(status, targets) ==
    IF status \in targets THEN "return_true"
    ELSE IF status \in ErrorStatuses THEN "return_false"
    ELSE "sleep"

\* one evaluation of the loop condition and, when it holds, one iteration:
\* poll, compare, sleep
wait_for_status ==
    /\ pc = "wait_for_status"
    /\ UNCHANGED service_vars
    /\ IF LoopGuard(elapsed, DefaultTimeout)
       THEN \E lat \in Latencies :
            /\ poll_after_error' = (poll_after_error \/ saw_error)
            /\ poll_late' = (poll_late \/ elapsed >= DefaultTimeout)
            /\ \/ \* the request fails in transport
                  /\ SysExit
                  /\ elapsed' = elapsed + lat
                  /\ UNCHANGED <<status_vars, wait_site, target_statuses,
                                 wait_ret, hit_target, saw_error>>
               \/ \E reply \in PossibleStatusReplies :
                  LET status == get_pod_status(reply)
                      verdict == PollVerdict(status, target_statuses) IN
                  /\ all_absent' = (all_absent /\ reply.code = 404)
                  /\ hit_target' = (hit_target \/
                                     (/\ status \in target_statuses
                                      /\ ~saw_error
                                      /\ elapsed < DefaultTimeout))
                  /\ saw_error' = (saw_error \/ status \in ErrorStatuses)
                  /\ IF verdict = "sleep"
                     THEN /\ elapsed' = elapsed + lat + PollInterval
                          /\ UNCHANGED <<pc, wait_ret>>
                     ELSE /\ elapsed' = elapsed + lat
                          /\ pc' = "wait_done"
                          /\ wait_ret' = <<verdict = "return_true">>
                  /\ UNCHANGED <<current_status,
                                 stop_result, wait_site, target_statuses,
                                 exit_vars>>
       ELSE /\ pc' = "wait_done"
            /\ wait_ret' = <<FALSE>>
            /\ UNCHANGED <<status_vars, wait_site, target_statuses, elapsed,
                           hit_target, saw_error, poll_after_error, poll_late,
                           exit_vars>>
    /\ UNCHANGED <<argv, conf, deploy_vars, out_vars, account, pod_id,
                   hist_vars>>

\* ---------------------------------------------------------------- stop_pod

\* the test with STOPPED left out of the list
AlreadyStoppedOnlyExited(status) == status = "EXITED"

\* "current_status in ['EXITED', 'STOPPED']"
AlreadyStopped(status) == status \in {"EXITED", "STOPPED"}

\* stop_pod up to its first decision
stop_pod ==
    /\ pc = "stop_pod"
    /\ UNCHANGED service_vars
    /\ UNCHANGED <<argv, conf, deploy_vars, calls>>
    /\ ResolvePod
    /\ UNCHANGED <<account, deploy_called, delete_code>>
    /\ IF server_host = None
       THEN /\ RaiseToMain
            /\ UNCHANGED <<status_vars, wait_vars, stdout, found_stopped>>
       ELSE \/ /\ SysExit
               /\ UNCHANGED <<status_vars, wait_vars, stdout, found_stopped>>
            \/ \E reply \in PossibleStatusReplies :
               LET status == get_pod_status(reply) IN
               /\ current_status' = status
               /\ found_stopped' = (status \in {"EXITED", "STOPPED"})
               /\ all_absent' = (all_absent /\ reply.code = 404)
               /\ IF AlreadyStopped(status)
                  THEN /\ PrintToken(status)
                       /\ StopReturn(TRUE)
                       /\ UNCHANGED wait_vars
                  ELSE IF status # "RUNNING"
                  THEN /\ CallWait("stop_stable",
                                   {"EXITED", "STOPPED", "RUNNING"})
                       /\ UNCHANGED <<stdout, stop_result, exit_vars>>
                  ELSE /\ pc' = "stop_request"
                       /\ UNCHANGED <<wait_vars, stdout, stop_result,
                                      exit_vars>>

\* after the wait for a stable state: give up, or read the status again
stop_recheck ==
    /\ pc = "wait_done" /\ wait_site = "stop_stable"
    /\ UNCHANGED service_vars
    /\ UNCHANGED <<argv, conf, deploy_vars, calls, account, pod_id,
                   hist_vars>>
    /\ IF wait_ret = <<FALSE>>
       THEN /\ StopReturn(FALSE)
            /\ UNCHANGED <<current_status, all_absent, wait_vars, stdout>>
       ELSE \/ /\ SysExit
               /\ UNCHANGED <<current_status, all_absent, stop_result,
                              wait_vars, stdout>>
            \/ \E reply \in PossibleStatusReplies :
               LET status == get_pod_status(reply) IN
               /\ current_status' = status
               /\ all_absent' = (all_absent /\ reply.code = 404)
               /\ ClearWait
               /\ IF AlreadyStopped(status)
                  THEN PrintToken(status) /\ StopReturn(TRUE)
                  ELSE /\ pc' = "stop_request"
                       /\ UNCHANGED <<stdout, stop_result, exit_vars>>

\* POST <pod_id>/stop
stop_request ==
    /\ pc = "stop_request"
    /\ UNCHANGED service_vars
    /\ calls' = Append(calls, Call("stop"))
    /\ UNCHANGED <<argv, conf, deploy_vars, stdout, current_status, all_absent,
                   account, pod_id, hist_vars>>
    /\ \/ SysExit /\ UNCHANGED <<stop_result, wait_vars>>
       \/ \E code \in PossibleMutationCodes :
          IF code \in {200, 202}
          THEN /\ CallWait("stop_stopped", {"EXITED", "STOPPED"})
               /\ UNCHANGED <<stop_result, exit_vars>>
          ELSE StopReturn(FALSE) /\ UNCHANGED wait_vars

\* after the wait for the pod to stop
stop_finish ==
    /\ pc = "wait_done" /\ wait_site = "stop_stopped"
    /\ UNCHANGED service_vars
    /\ UNCHANGED <<argv, conf, deploy_vars, calls, current_status, account,
                   pod_id, hist_vars>>
    /\ IF wait_ret = <<TRUE>>
       THEN \/ /\ SysExit
               /\ UNCHANGED <<all_absent, stop_result, wait_vars, stdout>>
            \/ \E reply \in PossibleStatusReplies :
               LET final_status == get_pod_status(reply) IN
               /\ all_absent' = (all_absent /\ reply.code = 404)
               /\ PrintToken(final_status)
               /\ StopReturn(TRUE)
               /\ UNCHANGED wait_vars
       ELSE /\ StopReturn(FALSE)
            /\ UNCHANGED <<all_absent, wait_vars, stdout>>

\* ---------------------------------------------------------------- restart_pod

\* restart_pod going on to start_pod whatever stop_pod returned
RestartGivesUpNever(stop_ret) == FALSE

\* "if not self.stop_pod(pod_type)"
RestartGivesUp(stop_ret) == stop_ret = <<FALSE>>

\* restart_pod once stop_pod has returned: "if not self.stop_pod(pod_type):
\* return False", then time.sleep(5) and start_pod
restart_pod ==
    /\ pc = "restart_pod"
    /\ UNCHANGED service_vars
    /\ UNCHANGED <<argv, conf, deploy_vars, stop_result, out_vars, account,
                   pod_id, hist_vars>>
    /\ IF RestartGivesUp(stop_result)
       THEN /\ ReturnToMain(FALSE)
            /\ UNCHANGED <<current_status, all_absent, wait_vars>>
       ELSE /\ pc' = "start_pod"
            /\ current_status' = Unread
            /\ all_absent' = TRUE
            /\ ClearWait
            /\ UNCHANGED exit_vars

\* ---------------------------------------------------------------- start_pod

\* start_pod returns r; restart_pod returns start_pod's value as its own
StartReturn(r) == ReturnToMain(r)

\* the fallback to deploy_pod taken whatever the flag says
DeployOrFailAlways ==
    /\ pc' = "deploy_pod"
    /\ deploy_called' = TRUE
    /\ current_status' = Unread
    /\ all_absent' = TRUE
    /\ ClearWait
    /\ UNCHANGED exit_vars

\* "return self.deploy_pod(pod_type)" when the flag is set, else False
DeployOrFail ==
    IF deploy_new_if_needed
    THEN /\ pc' = "deploy_pod"
         /\ deploy_called' = TRUE
         /\ current_status' = Unread
         /\ all_absent' = TRUE
         /\ ClearWait
         /\ UNCHANGED exit_vars
    ELSE /\ StartReturn(FALSE)
         /\ UNCHANGED <<current_status, all_absent, wait_vars, deploy_called>>

\* the early return taken only without --deploy-new-if-needed
AlreadyRunningUnlessFlag(status) ==
    status = "RUNNING" /\ ~deploy_new_if_needed

\* 'current_status == "RUNNING"'
AlreadyRunning(status) == status = "RUNNING"

\* start_pod up to its first decision
start_pod ==
    /\ pc = "start_pod"
    /\ UNCHANGED service_vars
    /\ UNCHANGED <<argv, conf, deploy_vars, calls, stop_result>>
    /\ ResolvePod
    /\ UNCHANGED <<account, deploy_called, found_stopped, delete_code>>
    /\ IF server_host = None
       THEN /\ RaiseToMain
            /\ UNCHANGED <<current_status, all_absent,
                           wait_vars, stdout>>
       ELSE \/ /\ SysExit
               /\ UNCHANGED <<current_status, all_absent,
                              wait_vars, stdout>>
            \/ \E reply \in PossibleStatusReplies :
               LET status == get_pod_status(reply) IN
               /\ current_status' = status
               /\ all_absent' = (all_absent /\ reply.code = 404)
               /\ IF AlreadyRunning(status)
                  THEN /\ PrintToken("RUNNING")
                       /\ StartReturn(TRUE)
                       /\ UNCHANGED wait_vars
                  ELSE IF status \notin {"EXITED", "STOPPED", None}
                  THEN /\ CallWait("start_stable",
                                   {"EXITED", "STOPPED", "RUNNING"})
                       /\ UNCHANGED <<stdout, exit_vars>>
                  ELSE /\ pc' = "start_request"
                       /\ UNCHANGED <<wait_vars, stdout, exit_vars>>

\* after the wait for a stable state: give up, or read the status again
start_recheck ==
    /\ pc = "wait_done" /\ wait_site = "start_stable"
    /\ UNCHANGED service_vars
    /\ UNCHANGED <<argv, conf, deploy_vars, calls,
                   stop_result, account, pod_id, hist_vars>>
    /\ IF wait_ret = <<FALSE>>
       THEN /\ StartReturn(FALSE)
            /\ UNCHANGED <<current_status, all_absent, wait_vars, stdout>>
       ELSE \/ /\ SysExit
               /\ UNCHANGED <<current_status, all_absent, wait_vars, stdout>>
            \/ \E reply \in PossibleStatusReplies :
               LET status == get_pod_status(reply) IN
               /\ current_status' = status
               /\ all_absent' = (all_absent /\ reply.code = 404)
               /\ ClearWait
               /\ IF AlreadyRunning(status)
                  THEN PrintToken("RUNNING") /\ StartReturn(TRUE)
                  ELSE /\ pc' = "start_request"
                       /\ UNCHANGED <<stdout, exit_vars>>

\* POST <pod_id>/start
start_request ==
    /\ pc = "start_request"
    /\ UNCHANGED service_vars
    /\ calls' = Append(calls, Call("start"))
    /\ UNCHANGED <<argv, conf, deploy_vars, stdout, stop_result, account,
                   pod_id, any_request, found_stopped, delete_code>>
    /\ \/ SysExit /\ UNCHANGED <<current_status, all_absent, wait_vars,
                                  deploy_called>>
       \/ \E code \in PossibleMutationCodes :
          IF code \in {200, 202}
          THEN /\ CallWait("start_running", {"RUNNING"})
               /\ UNCHANGED <<current_status, all_absent, exit_vars,
                              deploy_called>>
          ELSE DeployOrFail

\* after the wait for RUNNING
start_finish ==
    /\ pc = "wait_done" /\ wait_site = "start_running"
    /\ UNCHANGED service_vars
    /\ UNCHANGED <<argv, conf, deploy_vars, calls, stop_result, account,
                   pod_id, any_request, found_stopped, delete_code>>
    /\ IF wait_ret = <<TRUE>>
       THEN /\ PrintToken("RUNNING")
            /\ StartReturn(TRUE)
            /\ UNCHANGED <<current_status, all_absent, wait_vars,
                           deploy_called>>
       ELSE /\ DeployOrFail
            /\ UNCHANGED stdout

\* ---------------------------------------------------------------- deploy_pod

\* prices in cents; <<>> is a price the catalogue leaves null
Offers == [communitySpotPrice : {<<>>, <<25>>, <<50>>},
           secureSpotPrice : {<<>>, <<20>>}]
\* offerings under the default ceiling, for catalogues longer than TopN
CheapOffers == {o \in Offers : o.communitySpotPrice \in {<<>>, <<25>>}
                               /\ o.secureSpotPrice = <<20>>}

\* the gpuTypes of a reply: every offering has an id, here its position
WithIds(f) ==
    [i \in DOMAIN f |->
        [id |-> i, communitySpotPrice |-> f[i].communitySpotPrice,
         secureSpotPrice |-> f[i].secureSpotPrice]]

Catalogues ==
    {WithIds(f) : f \in UNION {[1..n -> Offers] : n \in 0..MaxCatalogue}}
        \cup {WithIds(f) : f \in [1..(TopN + 1) -> CheapOffers]}

\* values of MAX_GPU_PRICE in the env file, in cents
Ceilings == {20, DefaultMaxPrice}

\* the lower of the two prices, whichever kind it is
min_priceLowest(gpu) ==
    IF gpu.communitySpotPrice = <<>> THEN gpu.secureSpotPrice
    ELSE IF gpu.secureSpotPrice = <<>> THEN gpu.communitySpotPrice
    ELSE IF gpu.secureSpotPrice[1] < gpu.communitySpotPrice[1]
    THEN gpu.secureSpotPrice
    ELSE gpu.communitySpotPrice

\* "prefer community over secure": <<>> when the offering has no price
min_price(gpu) ==
    IF gpu.communitySpotPrice # <<>> THEN gpu.communitySpotPrice
    ELSE gpu.secureSpotPrice

\* the test without the comparison with max_price
IsAffordableAnyPrice(gpu, ceiling) == min_price(gpu) # <<>>

\* "min_price is not None and min_price <= max_price"
IsAffordable(gpu, ceiling) ==
    min_price(gpu) # <<>> /\ min_price(gpu)[1] <= ceiling

\* the loop that fills affordable_gpus, in catalogue order
FilterAffordable(catalogue, ceiling) ==
    LET keep == SelectSeq(catalogue, LAMBDA g : IsAffordable(g, ceiling))
    IN [i \in 1..Len(keep) |-> [id |-> keep[i].id, price |-> min_price(keep[i])[1]]]

\* an insertion that puts x in front of the elements with an equal key
InsertBeforeEqual(x, sorted) ==
    LET before == SelectSeq(sorted, LAMBDA y : y.price < x.price)
        after == SelectSeq(sorted, LAMBDA y : y.price >= x.price)
    IN before \o <<x>> \o after

\* x goes behind every element whose key is not larger
InsertByPrice(x, sorted) ==
    LET before == SelectSeq(sorted, LAMBDA y : y.price <= x.price)
        after == SelectSeq(sorted, LAMBDA y : y.price > x.price)
    IN before \o <<x>> \o after

RECURSIVE SortFrom(_, _)
SortFrom(list, sorted) ==
    IF list = <<>> THEN sorted
    ELSE SortFrom(Tail(list), InsertByPrice(Head(list), sorted))

\* affordable_gpus.sort(key=lambda x: x['price']); list.sort is stable
SortByPrice(list) == SortFrom(list, <<>>)

\* list[:1] whatever n is
TakeFirst(list, n) == SubSeq(list, 1, IF Len(list) < 1 THEN Len(list) ELSE 1)

\* list[:n]
Take(list, n) == SubSeq(list, 1, IF Len(list) < n THEN Len(list) ELSE n)

\* the ids of the whole list, without the slice
TopIdsAll(list) == [i \in 1..Len(list) |-> list[i].id]

\* [gpu['id'] for gpu in affordable_gpus[:5]]
TopIds(list) ==
    LET top == Take(list, TopN) IN [i \in 1..Len(top) |-> top[i].id]

\* what can happen to the create request: it fails in transport, the
\* provider refuses it for a reason of its own (funds, validation), it
\* answers 200 without an id, or it serves it.  A provider that serves
\* the request has capacity for the k-th cheapest affordable offering and
\* for none cheaper (k = 0: for none at all)
ProviderChoices(n) ==
    [fault : {"transport", "refused", "no_id"}, cheapest_available : {0}]
        \cup [fault : {"none"}, cheapest_available : 0..n]

\* the GPU type a serving provider places the pod on: the first of
\* gpuTypeIds it has capacity for; <<>> when it has capacity for none
PlacedOn(ids, choice) ==
    IF choice.fault = "none" /\ choice.cheapest_available \in 1..Len(ids)
    THEN <<ids[choice.cheapest_available]>>
    ELSE <<>>

\* the provider creates a pod exactly when it places the request
CreatesPod(ids, choice) == PlacedOn(ids, choice) # <<>>

\* the reply to POST /v2/pods
CreateReply(ids, choice) ==
    IF choice.fault = "no_id" THEN [code |-> 200, id |-> <<>>]
    ELSE IF PlacedOn(ids, choice) # <<>>
    THEN [code |-> 200, id |-> <<"new_pod">>]
    ELSE [code |-> 500, id |-> <<>>]

\* deploy_pod reporting the new pod's status before it returns True
DeployReturnViaStatus(r) ==
    IF r THEN pc' = "status_pod" /\ UNCHANGED exit_vars
    ELSE ReturnToMain(r)

\* deploy_pod returns r, to main or as the value of start_pod
DeployReturn(r) == ReturnToMain(r)

\* the status test alone, without "if pod_id"
CreateSucceededAnyOk(reply) == reply.code = 200

\* "response.status_code == 200", then "if pod_id"
CreateSucceeded(reply) == reply.code = 200 /\ reply.id # <<>>

\* result.get('id')
PodIdOf(reply) == IF reply.id = <<>> THEN None ELSE reply.id[1]

\* deploy_pod up to the create request: the gpuTypes query, the filter,
\* the sort
deploy_pod ==
    /\ pc = "deploy_pod"
    /\ UNCHANGED service_vars
    /\ UNCHANGED <<argv, conf, status_vars, wait_vars, out_vars, provider,
                   new_pod, account, pod_id, deploy_called, found_stopped,
                   delete_code>>
    /\ any_request' = TRUE
    /\ \/ \* the GraphQL request fails (transport or HTTP status)
          /\ SysExit
          /\ UNCHANGED <<gpu_types, max_price, affordable_gpus, gpu_type_ids>>
       \/ \* 'errors' in the reply, or a body without the expected shape
          /\ DeployReturn(FALSE)
          /\ UNCHANGED <<gpu_types, max_price, affordable_gpus, gpu_type_ids>>
       \/ \E catalogue \in Catalogues, ceiling \in Ceilings :
          LET affordable == FilterAffordable(catalogue, ceiling) IN
          /\ gpu_types' = catalogue
          /\ max_price' = ceiling
          /\ IF affordable = <<>>
             THEN /\ DeployReturn(FALSE)
                  /\ UNCHANGED <<affordable_gpus, gpu_type_ids>>
             ELSE /\ affordable_gpus' = SortByPrice(affordable)
                  /\ gpu_type_ids' = TopIds(SortByPrice(affordable))
                  /\ pc' = "deploy_create"
                  /\ UNCHANGED exit_vars

\* POST /v2/pods and what deploy_pod makes of the reply
deploy_create ==
    /\ pc = "deploy_create"
    /\ UNCHANGED service_vars
    /\ UNCHANGED <<argv, conf, status_vars, wait_vars, gpu_types, max_price,
                   affordable_gpus, gpu_type_ids, pod_id, hist_vars>>
    /\ calls' = Append(calls, CreateCall(gpu_type_ids))
    /\ \E choice \in ProviderChoices(Len(affordable_gpus)) :
       /\ CreatesPod(gpu_type_ids, choice) => account.deployed < MaxDeployed
       /\ provider' = choice
       /\ account' = IF CreatesPod(gpu_type_ids, choice)
                     THEN [account EXCEPT !.deployed = @ + 1]
                     ELSE account
       /\ IF choice.fault = "transport"
          THEN \* requests.RequestException, caught by deploy_pod
               /\ DeployReturn(FALSE)
               /\ UNCHANGED <<new_pod, stdout>>
          ELSE LET reply == CreateReply(gpu_type_ids, choice) IN
               IF CreateSucceeded(reply)
               THEN /\ new_pod' = <<[id |-> PodIdOf(reply),
                                     gpu |-> PlacedOn(gpu_type_ids, choice)]>>
                    /\ PrintToken(PodIdOf(reply))
                    /\ DeployReturn(TRUE)
               ELSE /\ DeployReturn(FALSE)
                    /\ UNCHANGED <<new_pod, stdout>>

\* ---------------------------------------------------------------- terminate_pod

terminate_pod ==
    /\ pc = "terminate_pod"
    /\ UNCHANGED service_vars
    /\ UNCHANGED <<argv, conf, deploy_vars, status_vars, wait_vars>>
    /\ ResolvePod
    /\ UNCHANGED <<deploy_called, found_stopped>>
    /\ IF server_host = None
       THEN \* ValueError, caught by terminate_pod's own except
            /\ ReturnToMain(FALSE)
            /\ UNCHANGED <<out_vars, account, delete_code>>
       ELSE /\ calls' = Append(calls, Call("delete"))
            /\ \/ SysExit /\ UNCHANGED <<stdout, account, delete_code>>
               \/ \E code \in PossibleMutationCodes :
                  /\ delete_code' = <<code>>
                  /\ IF code \in {200, 204}
                     THEN /\ PrintToken("TERMINATED")
                          /\ ReturnToMain(TRUE)
                          /\ account' = [account EXCEPT !.configured = FALSE]
                     ELSE /\ ReturnToMain(FALSE)
                          /\ UNCHANGED <<stdout, account>>

Next ==
    \/ Main
    \/ NextRun
    \/ status_pod
    \/ wait_for_status
    \/ stop_pod
    \/ stop_recheck
    \/ stop_request
    \/ stop_finish
    \/ restart_pod
    \/ start_pod
    \/ start_recheck
    \/ start_request
    \/ start_finish
    \/ deploy_pod
    \/ deploy_create
    \/ terminate_pod

Spec == Init /\ [][Next]_vars

\* ================================================================ api.py: POST /api/ask
\* one request, from its arrival to the response

\* Python truthiness of data.get(field): a field that is present and not ""
Truthy(v) == v # <<>> /\ v[1] # ""

\* update_activity(): last_activity_time = time.time()
update_activity == last_activity_time' = now

\* a client posts a JSON object; ask starts with update_activity()
AskReceive ==
    /\ ask_pc = "idle"
    /\ \E b \in Bodies : body' = b
    /\ update_activity
    /\ ask_pc' = "validate"
    /\ UNCHANGED <<realm_status, llm_called, conversation_stored,
                   ask_response>>
    /\ UNCHANGED <<main_pc, INACTIVITY_TIMEOUT_SECONDS, now, wake_at, mon_pc,
                   shutdown_initiated, stop_pod_calls, stop_observed>>
    /\ UNCHANGED <<pod_vars, sched_vars>>

\* "if not question: return jsonify({'error': ...}), 400"; the other two
\* fields are read with 'data.get(...) or ""' and not tested
AskValidate ==
    /\ ask_pc = "validate"
    /\ IF ~Truthy(body.question)
       THEN /\ ask_response' = [code |-> 400, error |-> "question"]
            /\ ask_pc' = "done"
       ELSE /\ ask_pc' = "realm_status"
            /\ UNCHANGED ask_response
    /\ UNCHANGED <<body, realm_status, llm_called, conversation_stored>>
    /\ UNCHANGED <<pod_vars, mon_vars, sched_vars>>

\* the realm status of the request, or, for a realm without one, what the
\* database or the canister delivers (nothing, when they fail)
AskRealmStatus ==
    /\ ask_pc = "realm_status"
    /\ IF Truthy(body.realm_principal) /\ ~body.realm_status
       THEN \E found \in BOOLEAN : realm_status' = found
       ELSE realm_status' = body.realm_status
    /\ ask_pc' = "generate"
    /\ UNCHANGED <<body, llm_called, conversation_stored, ask_response>>
    /\ UNCHANGED <<pod_vars, mon_vars, sched_vars>>

\* build_prompt, then the request to Ollama: streamed (the Response is a
\* 200 whatever happens inside the generator) or in one piece
AskGenerate ==
    /\ ask_pc = "generate"
    /\ llm_called' = TRUE
    /\ \E answered \in BOOLEAN :
        /\ conversation_stored' = answered
        /\ ask_response' =
             IF body.stream \/ answered
             THEN [code |-> 200, error |-> "None"]
             ELSE [code |-> 500, error |-> "exception"]
    /\ ask_pc' = "done"
    /\ UNCHANGED <<body, realm_status>>
    /\ UNCHANGED <<pod_vars, mon_vars, sched_vars>>

AskNext ==
    \/ AskReceive
    \/ AskValidate
    \/ AskRealmStatus
    \/ AskGenerate

AskSpec == Init /\ [][AskNext]_vars

\* ================================================================ api.py: the inactivity monitor
\* time is counted in check intervals (INACTIVITY_CHECK_INTERVAL_SECONDS)

\* the monitor thread exists and has not returned
MonitorAlive == mon_pc \notin {"none", "ended"}

\* start_inactivity_monitor(), called once by the __main__ block; the
\* environment variable was read when the module was loaded
start_inactivity_monitor ==
    /\ main_pc = "start"
    /\ main_pc' = "serving"
    /\ \E t \in TimeoutValues :
        /\ INACTIVITY_TIMEOUT_SECONDS' = t
        /\ IF t > 0 /\ ~MonitorAlive
           THEN \* the thread starts with the loop test and the first sleep
                mon_pc' = "sleep" /\ wake_at' = now + 1
           ELSE UNCHANGED <<mon_pc, wake_at>>
    /\ UNCHANGED <<now, last_activity_time, shutdown_initiated,
                   stop_pod_calls, stop_observed>>
    /\ UNCHANGED <<pod_vars, ask_vars, sched_vars>>

\* time passes
Tick ==
    /\ now < MaxClock
    /\ now' = now + 1
    /\ UNCHANGED <<main_pc, INACTIVITY_TIMEOUT_SECONDS, last_activity_time,
                   wake_at, mon_pc, shutdown_initiated, stop_pod_calls,
                   stop_observed>>
    /\ UNCHANGED <<pod_vars, ask_vars, sched_vars>>

\* a request handler runs update_activity()
Activity ==
    /\ main_pc = "serving"
    /\ last_activity_time # now
    /\ update_activity
    /\ UNCHANGED <<main_pc, INACTIVITY_TIMEOUT_SECONDS, now, wake_at, mon_pc,
                   shutdown_initiated, stop_pod_calls, stop_observed>>
    /\ UNCHANGED <<pod_vars, ask_vars, sched_vars>>

\* the comparison turned round
TimeoutReachedInverted(timeout, inactive_duration) ==
    timeout > 0 /\ inactive_duration <= timeout

\* "INACTIVITY_TIMEOUT_SECONDS > 0 and inactive_duration >=
\* INACTIVITY_TIMEOUT_SECONDS"
TimeoutReached(timeout, inactive_duration) ==
    timeout > 0 /\ inactive_duration >= timeout

\* one iteration of monitor_inactivity from the end of its sleep: break on
\* shutdown_initiated, else check; when the timeout is reached set
\* shutdown_initiated and go on to stop the pod, else test the loop
\* condition and sleep again
monitor_inactivity ==
    /\ mon_pc = "sleep" /\ now >= wake_at
    /\ IF shutdown_initiated
       THEN /\ mon_pc' = "ended"
            /\ UNCHANGED <<wake_at, shutdown_initiated, stop_observed>>
       ELSE LET inactive_duration == now - last_activity_time IN
            IF TimeoutReached(INACTIVITY_TIMEOUT_SECONDS, inactive_duration)
            THEN /\ shutdown_initiated' = TRUE
                 /\ mon_pc' = "stop_call"
                 /\ stop_observed' =
                      <<[timeout |-> INACTIVITY_TIMEOUT_SECONDS,
                         idle |-> inactive_duration]>>
                 /\ UNCHANGED wake_at
            ELSE /\ wake_at' = now + 1
                 /\ UNCHANGED <<mon_pc, shutdown_initiated, stop_observed>>
    /\ UNCHANGED <<main_pc, INACTIVITY_TIMEOUT_SECONDS, now,
                   last_activity_time, stop_pod_calls>>
    /\ UNCHANGED <<pod_vars, ask_vars, sched_vars>>

\* "pod_manager = PodManager(verbose=True)" and the call of
\* pod_manager.stop_pod(os.getenv('POD_TYPE')); a constructor that raises
\* (no API key) is caught, and so is stop_pod(None) when POD_TYPE is not
\* set; the loop condition then ends the thread
MonitorCallStop ==
    /\ mon_pc = "stop_call"
    /\ \E key \in {<<>>, <<"key">>}, host \in {None, "host"},
          pod_type_set \in BOOLEAN :
        IF key = <<>>
        THEN /\ mon_pc' = "ended"
             /\ UNCHANGED <<pod_vars, stop_pod_calls>>
        ELSE IF ~pod_type_set
        THEN /\ mon_pc' = "ended"
             /\ stop_pod_calls' = stop_pod_calls + 1
             /\ UNCHANGED pod_vars
        ELSE /\ mon_pc' = "in_stop"
             /\ stop_pod_calls' = stop_pod_calls + 1
             /\ pc' = "stop_pod" /\ action' = "stop" /\ verbose' = TRUE
             /\ api_key' = key /\ server_host' = host
             /\ UNCHANGED <<pod_type, deploy_new_if_needed, status_vars,
                            wait_vars, deploy_vars, out_vars, exit_vars,
                            account, pod_id, hist_vars>>
    /\ UNCHANGED <<main_pc, INACTIVITY_TIMEOUT_SECONDS, now,
                   last_activity_time, wake_at, shutdown_initiated,
                   stop_observed>>
    /\ UNCHANGED <<ask_vars, sched_vars>>

\* stop_pod is over: it returned True or False (logged), raised (caught and
\* logged) or ended the thread with SystemExit; in every case the loop
\* condition "while not shutdown_initiated" is false by now
MonitorStopReturned ==
    /\ mon_pc = "in_stop" /\ pc = "exited"
    /\ mon_pc' = "ended"
    /\ UNCHANGED <<main_pc, INACTIVITY_TIMEOUT_SECONDS, now,
                   last_activity_time, wake_at, shutdown_initiated,
                   stop_pod_calls, stop_observed>>
    /\ UNCHANGED <<pod_vars, ask_vars, sched_vars>>

\* stop_inactivity_monitor(), in the finally of the __main__ block
stop_inactivity_monitor ==
    /\ main_pc = "serving"
    /\ main_pc' = "finished"
    /\ shutdown_initiated' = TRUE
    /\ UNCHANGED <<INACTIVITY_TIMEOUT_SECONDS, now, last_activity_time,
                   wake_at, mon_pc, stop_pod_calls, stop_observed>>
    /\ UNCHANGED <<pod_vars, ask_vars, sched_vars>>

MonitorNext ==
    \/ start_inactivity_monitor
    \/ Tick
    \/ Activity
    \/ monitor_inactivity
    \/ MonitorCallStop
    \/ stop_pod
    \/ wait_for_status
    \/ stop_recheck
    \/ stop_request
    \/ stop_finish
    \/ MonitorStopReturned
    \/ stop_inactivity_monitor

MonitorSpec == Init /\ [][MonitorNext]_vars

\* ================================================================ realm_status_scheduler.py
\* one RealmStatusScheduler, its start() and stop() called in any order, and
\* the threads that run _scheduler_loop

Threads == 1..MaxThreads

\* threads that have been started and have not returned or died
LiveLoops ==
    {t \in Threads : loop_pc[t] \in {"started", "test", "fetch", "sleep"}}

\* get_scheduler() builds the instance: enabled from
\* REALM_STATUS_SCHEDULER_ENABLED, realms_config from load_realms_config,
\* whose exception handler names traceback, which the module does not
\* import, so that a configuration that fails to load leaves no instance
RealmStatusScheduler ==
    /\ sched_pc = "none"
    /\ \/ /\ sched_pc' = "ready"
          /\ enabled' \in BOOLEAN
          /\ realms_configured' \in BOOLEAN
       \/ /\ sched_pc' = "failed"
          /\ UNCHANGED <<enabled, realms_configured>>
    /\ UNCHANGED <<running, loop_pc>>
    /\ UNCHANGED <<pod_vars, ask_vars, mon_vars>>

\* start(): returns early when disabled, already running or without
\* realms; else sets running and starts a new thread on _scheduler_loop
start ==
    /\ sched_pc = "ready"
    /\ IF ~enabled \/ running \/ ~realms_configured
       THEN UNCHANGED <<running, loop_pc>>
       ELSE /\ \E t \in Threads : loop_pc[t] = "unborn"
            /\ running' = TRUE
            /\ LET t == CHOOSE u \in Threads :
                           /\ loop_pc[u] = "unborn"
                           /\ \A w \in Threads :
                                  loop_pc[w] = "unborn" => u <= w
               IN loop_pc' = [loop_pc EXCEPT ![t] = "started"]
    /\ UNCHANGED <<sched_pc, enabled, realms_configured>>
    /\ UNCHANGED <<pod_vars, ask_vars, mon_vars>>

\* stop(): clears running; the thread is neither joined nor told apart
stop ==
    /\ sched_pc = "ready"
    /\ running' = FALSE
    /\ UNCHANGED <<sched_pc, enabled, realms_configured, loop_pc>>
    /\ UNCHANGED <<pod_vars, ask_vars, mon_vars>>

\* "while self.running:" as read by thread t
LoopContinues(t) == running

\* _scheduler_loop, the loop test: the first one of a thread just started
\* and the one after each sleep
LoopTest(t) ==
    /\ loop_pc[t] \in {"started", "test"}
    /\ loop_pc' = [loop_pc EXCEPT ![t] =
                      IF LoopContinues(t) THEN "fetch" ELSE "dead"]
    /\ UNCHANGED <<sched_pc, enabled, realms_configured, running>>
    /\ UNCHANGED <<pod_vars, ask_vars, mon_vars>>

\* _scheduler_loop, the body up to the sleep: the fetch and its logging; an
\* exception reaches the handler, whose traceback.print_exc() raises
\* NameError and ends the thread
LoopFetch(t) ==
    /\ loop_pc[t] = "fetch"
    /\ \E raised \in BOOLEAN :
         loop_pc' = [loop_pc EXCEPT ![t] =
                       IF raised THEN "dead" ELSE "sleep"]
    /\ UNCHANGED <<sched_pc, enabled, realms_configured, running>>
    /\ UNCHANGED <<pod_vars, ask_vars, mon_vars>>

\* _scheduler_loop, time.sleep(self.fetch_interval) is over
LoopWake(t) ==
    /\ loop_pc[t] = "sleep"
    /\ loop_pc' = [loop_pc EXCEPT ![t] = "test"]
    /\ UNCHANGED <<sched_pc, enabled, realms_configured, running>>
    /\ UNCHANGED <<pod_vars, ask_vars, mon_vars>>

SchedulerNext ==
    \/ RealmStatusScheduler
    \/ start
    \/ stop
    \/ \E t \in Threads : LoopTest(t)
    \/ \E t \in Threads : LoopFetch(t)
    \/ \E t \in Threads : LoopWake(t)

SchedulerSpec == Init /\ [][SchedulerNext]_vars

\* ================================================================ properties

\* the kinds of mutating request issued so far in this run
Ops == {calls[i].op : i \in DOMAIN calls}

\* stop_pod is the running method, or has just returned
InStopPod ==
    \/ action = "stop"
    \/ action = "restart" /\ (stop_result = <<>> \/ pc = "restart_pod")

\* start_pod is the running method, or was the last to return
InStartPod ==
    \/ action = "start"
    \/ action = "restart" /\ stop_result = <<TRUE>> /\ pc # "restart_pod"

\* start_pod read the status RUNNING
StartSawRunning == InStartPod /\ current_status = "RUNNING"

\* C1: start on a pod whose status is RUNNING issues no start, stop, create
\* or delete request of its own and returns success, with the
\* deploy-new-if-needed flag set or not: the run ends with exit code 0 and
\* the only request possibly on record is the stop of a preceding restart
\* phase.
C1_StartOnRunningIsNoOp ==
    StartSawRunning =>
        /\ pc = "exited" /\ exit_via = "return"
        /\ success = <<TRUE>> /\ exit_code = <<0>>
        /\ Ops \subseteq {"stop"}
        /\ Len(calls) <= 1
        /\ (action = "start" => calls = <<>>)

C1_Witness ==
    /\ StartSawRunning /\ action = "start" /\ deploy_new_if_needed
    /\ pc = "exited" /\ stdout = <<Token("RUNNING")>>

\* stop_pod read a stopped status
StopSawStopped == InStopPod /\ current_status \in {"EXITED", "STOPPED"}

\* C2: stop on a pod whose status is STOPPED or EXITED issues no mutating
\* request and returns success (to main, which exits with 0, or to
\* restart_pod).
C2_StopOnStoppedIsNoOp ==
    StopSawStopped =>
        /\ calls = <<>>
        /\ IF action = "stop"
           THEN /\ pc = "exited" /\ exit_via = "return"
                /\ success = <<TRUE>> /\ exit_code = <<0>>
           ELSE pc = "restart_pod" /\ stop_result = <<TRUE>>

C2_Witness ==
    /\ StopSawStopped /\ action = "stop" /\ current_status = "STOPPED"
    /\ pc = "exited" /\ stdout = <<Token("STOPPED")>>

\* stop_pod has returned, to main or to restart_pod
StopReturned ==
    \/ action = "stop" /\ pc = "exited" /\ exit_via = "return"
    \/ action = "restart" /\ pc = "restart_pod"

\* what stop_pod returned
StopValue == IF action = "stop" THEN success ELSE stop_result

\* C3: stop on a role whose pod is absent (every status query of the call
\* was answered 404, so yielded no status) returns success and issues no
\* stop request.
C3_StopOnAbsentSucceeds ==
    (StopReturned /\ InStopPod /\ all_absent /\ current_status = None) =>
        /\ StopValue = <<TRUE>>
        /\ "stop" \notin Ops

\* the locals of wait_for_status are live: it runs, has returned to a caller
\* that has not gone on yet, or the process ended inside it or right after it
WaitLive == wait_site # Unread

\* C4: wait_for_status returns true exactly when a poll made before the
\* timeout returned a target status and no earlier poll returned FAILED or
\* ERROR; after a poll that returned FAILED or ERROR it issues no further
\* status query and returns false; the loop goes on only while neither has
\* happened, and a false return without an error poll comes only at the
\* timeout.
C4_WaitVerdict ==
    /\ ~poll_after_error
    /\ (pc = "wait_for_status" => wait_ret = <<>> /\ ~hit_target /\ ~saw_error)
    /\ (wait_ret # <<>> => wait_ret = <<hit_target>>)
    /\ (saw_error /\ ~hit_target /\ pc = "wait_done" => wait_ret = <<FALSE>>)
    /\ (wait_ret = <<FALSE>> /\ ~saw_error => elapsed >= DefaultTimeout)

C4_Witness ==
    /\ pc = "wait_done" /\ wait_ret = <<FALSE>> /\ saw_error
    /\ elapsed > PollInterval /\ elapsed < DefaultTimeout

\* C5 as claimed: wait_for_status returns no later than the timeout plus one
\* poll interval after it was called, however slow the status queries are.
C5_ReturnsWithinTimeoutPlusInterval ==
    wait_ret # <<>> => elapsed <= DefaultTimeout + PollInterval

\* C5 as amended: wait_for_status starts no status query once the timeout has
\* elapsed; every iteration that does not return moves the clock on by at
\* least one poll interval, so the loop ends; and the call is over (returned,
\* or the process exited on a failed request) before the timeout plus the
\* longest duration of one status query plus one poll interval.
C5_BoundedByTimeoutQueryAndInterval ==
    /\ [](~poll_late)
    /\ [](WaitLive => elapsed < DefaultTimeout + RequestTimeout + PollInterval)
    /\ [][(pc = "wait_for_status" /\ pc' = "wait_for_status")
            => elapsed' >= elapsed + PollInterval]_vars

C5_Witness ==
    /\ pc = "wait_done" /\ wait_ret = <<FALSE>> /\ ~saw_error
    /\ elapsed > DefaultTimeout + PollInterval

\* the effective price of an offering: its community spot price if it has
\* one, else its secure spot price; <<>> when it has neither
EffectivePrice(gpu) ==
    IF gpu.communitySpotPrice # <<>> THEN gpu.communitySpotPrice
    ELSE gpu.secureSpotPrice

\* C6: for every catalogue and ceiling, the candidate list deploy builds
\* holds only offerings of the catalogue whose effective price is at most the
\* ceiling, is sorted in non-decreasing effective price, keeps offerings of
\* equal price in catalogue order (ids are catalogue positions), and the ids
\* sent to the provider are a prefix of it.
C6_CandidatesAffordableSortedStable ==
    affordable_gpus # <<>> =>
        /\ \A i \in DOMAIN affordable_gpus :
            /\ affordable_gpus[i].id \in DOMAIN gpu_types
            /\ EffectivePrice(gpu_types[affordable_gpus[i].id])
                 = <<affordable_gpus[i].price>>
            /\ affordable_gpus[i].price <= max_price
        /\ \A i, j \in DOMAIN affordable_gpus :
            i < j =>
                /\ affordable_gpus[i].price <= affordable_gpus[j].price
                /\ (affordable_gpus[i].price = affordable_gpus[j].price
                      => affordable_gpus[i].id < affordable_gpus[j].id)
        /\ Len(gpu_type_ids) <= Len(affordable_gpus)
        /\ \A i \in DOMAIN gpu_type_ids :
            gpu_type_ids[i] = affordable_gpus[i].id

C6_Witness ==
    /\ pc = "deploy_create"
    /\ \E i, j \in DOMAIN affordable_gpus :
        /\ i < j
        /\ affordable_gpus[i].price = affordable_gpus[j].price
    /\ \E i, j \in DOMAIN affordable_gpus :
        /\ i < j
        /\ affordable_gpus[i].price < affordable_gpus[j].price
        /\ affordable_gpus[i].id > affordable_gpus[j].id

\* the create requests issued so far in this run
Creates == SelectSeq(calls, LAMBDA c : c.op = "create")

\* the ids of the (at most TopN) cheapest candidates, cheapest first
CheapestIds ==
    [i \in 1..(IF Len(affordable_gpus) < TopN THEN Len(affordable_gpus)
                                              ELSE TopN)
        |-> affordable_gpus[i].id]

\* the provider has capacity for one of the GPU types of the request and
\* nothing else keeps it from creating the pod
RequestCanBeServed ==
    /\ provider.fault = "none"
    /\ provider.cheapest_available \in 1..Len(CheapestIds)

EveryCandidateFails ==
    \/ provider.fault \in {"transport", "refused", "no_id"}
    \/ provider.fault = "none" /\ provider.cheapest_available = 0

\* C8: if creation fails for every candidate GPU, deploy returns failure and
\* produces no pod id: no pod is recorded and no pod id is printed.
C8_AllCandidatesFailMeansFailure ==
    (pc = "exited" /\ Creates # <<>> /\ EveryCandidateFails) =>
        /\ success = <<FALSE>> /\ exit_code = <<1>>
        /\ new_pod = <<>>
        /\ \A i \in DOMAIN stdout : stdout[i] # Token("new_pod")

C8_Witness ==
    /\ pc = "exited" /\ Creates # <<>>
    /\ provider.fault = "none" /\ provider.cheapest_available = 0
    /\ Len(gpu_type_ids) >= 2 /\ success = <<FALSE>>

\* the catalogue A = $0.50, B = $0.25, C = $0.20 (secure price only)
ScenarioCatalogue ==
    <<[id |-> 1, communitySpotPrice |-> <<50>>, secureSpotPrice |-> <<>>],
      [id |-> 2, communitySpotPrice |-> <<25>>, secureSpotPrice |-> <<>>],
      [id |-> 3, communitySpotPrice |-> <<>>, secureSpotPrice |-> <<20>>]>>

\* the provider, free of faults, has no capacity for the cheapest candidate
\* and has capacity for the k-th cheapest
CheapestUnavailableLaterAvailable ==
    /\ pc = "exited" /\ Creates # <<>>
    /\ provider.fault = "none"
    /\ provider.cheapest_available >= 2

\* deploy succeeded with a pod on the cheapest available candidate
DeployedOnCheapestAvailable ==
    /\ success = <<TRUE>> /\ exit_code = <<0>>
    /\ new_pod = <<[id |-> "new_pod",
                    gpu |-> <<affordable_gpus[provider.cheapest_available].id>>]>>
    /\ (~verbose => stdout # <<>> /\ stdout[Len(stdout)] = Token("new_pod"))

C10_RestartFailsFastOnStopFailure ==
    action = "restart" =>
        /\ (stop_result # <<TRUE>> =>
               /\ "start" \notin Ops /\ "create" \notin Ops
               /\ pc \notin {"start_pod", "start_request", "deploy_pod",
                             "deploy_create"}
               /\ wait_site \notin {"start_stable", "start_running"})
        /\ (stop_result = <<FALSE>> => pc \in {"restart_pod", "exited"})
        /\ (stop_result = <<FALSE>> /\ pc = "exited" =>
               success = <<FALSE>> /\ exit_code = <<1>>)
        /\ \A i, j \in DOMAIN calls :
               (calls[i].op = "stop" /\ calls[j].op \in {"start", "create"})
                   => i < j

C10_Witness ==
    /\ action = "restart" /\ deploy_new_if_needed
    /\ stop_result = <<FALSE>> /\ pc = "exited"
    /\ calls = <<Call("stop")>>

\* ---------------------------------------------------------------- restart of a stopped pod

\* the kinds of the mutating requests of this run, in the order issued
OpSeq == [i \in DOMAIN calls |-> calls[i].op]

\* restart_pod has returned after a run in which stop_pod found the pod
\* stopped at its first read and start_pod had its start request accepted
\* and saw RUNNING within the timeout
RestartOfStoppedPod ==
    /\ action = "restart" /\ pc = "exited" /\ exit_via = "return"
    /\ found_stopped
    /\ wait_site = "start_running" /\ wait_ret = <<TRUE>>

\* C11 as stated: restart of a stopped pod that then starts normally
\* succeeds with exactly two mutating requests, a stop and then a start
C11_RestartOfStoppedIssuesStopAndStart ==
    RestartOfStoppedPod =>
        success = <<TRUE>> /\ OpSeq = <<"stop", "start">>

\* C11 amended: restart of a stopped pod that then starts normally succeeds
\* with exactly one mutating request, the start; its stop phase finds the
\* pod stopped and issues no stop request
C11_RestartOfStoppedIssuesOnlyStart ==
    RestartOfStoppedPod =>
        success = <<TRUE>> /\ OpSeq = <<"start">>

C11_Witness ==
    /\ RestartOfStoppedPod
    /\ ~verbose
    /\ stdout = <<Token("STOPPED"), Token("RUNNING")>>
    /\ OpSeq = <<"start">>

\* ---------------------------------------------------------------- fallback to deploy_pod

\* start_pod has issued its start request and the wait for RUNNING has just
\* ended with False: the timeout passed, or FAILED / ERROR was polled
StartWaitFailed ==
    pc = "wait_done" /\ wait_site = "start_running" /\ wait_ret = <<FALSE>>

\* C12: when start_pod's wait for RUNNING fails after the start request,
\* start_pod goes on to deploy_pod if --deploy-new-if-needed is set, and
\* deploy_pod's result (a pod was created or not) is the result of the run;
\* without the flag it returns False with no further request.  Without the
\* flag start, stop and restart never enter deploy_pod and never issue a
\* create request.
C12_DeployFallbackOnlyWithFlag ==
    /\ [][StartWaitFailed =>
             IF deploy_new_if_needed
             THEN pc' = "deploy_pod" /\ deploy_called'
             ELSE /\ pc' = "exited" /\ success' = <<FALSE>>
                  /\ calls' = calls /\ ~deploy_called']_vars
    /\ [](action \in {"start", "restart"} /\ deploy_called
             /\ pc = "exited" /\ exit_via = "return"
             => success = <<new_pod # <<>> >>)
    /\ [](action \in {"start", "stop", "restart"} /\ ~deploy_new_if_needed
             => ~deploy_called /\ "create" \notin Ops
                /\ pc \notin {"deploy_pod", "deploy_create"})

C12_Witness ==
    /\ StartWaitFailed
    /\ deploy_new_if_needed
    /\ saw_error
    /\ OpSeq = <<"start">>

\* ---------------------------------------------------------------- start of an absent pod

\* the action of this run has ended other than by a failed transport
ActionEnded == pc = "exited" /\ api_key # <<>> /\ exit_via # "sys_exit"

\* C13 as stated: start for a role whose pod does not exist issues no start
\* request; with --deploy-new-if-needed it goes to deploy_pod, without the
\* flag it fails
C13_StartOnAbsentIssuesNoStart ==
    action = "start" /\ ~account.configured =>
        /\ "start" \notin Ops
        /\ ActionEnded =>
               IF deploy_new_if_needed THEN deploy_called
               ELSE exit_code = <<1>>

\* ---------------------------------------------------------------- status is read-only

\* C14: a run of the status action issues no start, stop, create or delete
\* request and never enters deploy_pod, whether the pod exists or not; the
\* one request it makes is the status query
C14_StatusNeverMutates ==
    action = "status" =>
        /\ calls = <<>>
        /\ ~deploy_called
        /\ delete_code = <<>>
        /\ pc \in {"idle", "status_pod", "exited"}

C14_Witness ==
    /\ action = "status" /\ pc = "exited" /\ exit_via = "return"
    /\ any_request
    /\ ~account.configured
    /\ current_status = None

\* ---------------------------------------------------------------- terminate of an absent pod

\* terminate_pod has returned after its DELETE was answered 404: the pod
\* was absent, from the start or since an earlier terminate
TerminatedAbsentPod ==
    /\ action = "terminate" /\ pc = "exited" /\ exit_via = "return"
    /\ delete_code = <<404>>

\* C15 as stated: terminate for a role whose pod is absent returns success,
\* so a second terminate in a row succeeds like the first
C15_TerminateOnAbsentSucceeds ==
    TerminatedAbsentPod => success = <<TRUE>> /\ exit_code = <<0>>

\* ---------------------------------------------------------------- exit code

\* C16: the process exits with 0 exactly when the action returned True; it
\* exits with 1 when the action returned False, when an exception reached
\* main, and when a request failed in transport.  Without an API key it
\* exits with 1 before any provider request.
C16_ExitCodeReflectsResult ==
    pc = "exited" =>
        /\ exit_code \in {<<0>>, <<1>>}
        /\ exit_code = <<0>> <=> (exit_via = "return" /\ success = <<TRUE>>)
        /\ exit_via = "return" => success \in {<<TRUE>>, <<FALSE>>}
        /\ api_key = <<>> =>
               /\ exit_code = <<1>> /\ exit_via = "exception"
               /\ ~any_request /\ calls = <<>> /\ ~deploy_called

C16_Witness ==
    /\ pc = "exited"
    /\ api_key = <<>>
    /\ action = "deploy"
    /\ exit_code = <<1>>
    /\ ~any_request

\* ---------------------------------------------------------------- failed requests

\* every status query the running method made was answered 404, and it made
\* one at least: the status it needed was never delivered
StatusQueriesFailed ==
    current_status = None /\ all_absent /\ any_request

\* the DELETE of terminate_pod was answered with a failure code
DeleteFailed == delete_code # <<>> /\ delete_code[1] \notin {200, 204}

\* C17 as stated: a run in which a request the action needed was answered
\* with a failure response never exits with code 0
C17_NoFailureSwallowed ==
    pc = "exited" /\ (StatusQueriesFailed \/ DeleteFailed) =>
        exit_code = <<1>>

\* C18 as stated: after a status query answered with a failure response no
\* further request is issued: no mutating request follows it and no wait
\* loop polls again (a loop that has polled and sleeps has elapsed > 0)
C18_FailedRequestAborts ==
    StatusQueriesFailed => calls = <<>> /\ elapsed = 0

\* ---------------------------------------------------------------- the pods of a role

\* the live pods the provider holds for the role
LiveInstances == (IF account.configured THEN 1 ELSE 0) + account.deployed

\* C19 as stated: whatever actions were run one after the other for a role,
\* the provider holds at most one live pod for it
C19_AtMostOneLiveInstance == LiveInstances <= 1

\* an earlier run's deploy_pod created a pod that is still alive, and the
\* running method has resolved the pod it addresses
ResolvedAfterDeploy ==
    account.deployed > 0 /\ new_pod = <<>> /\ pod_id # None

\* C20 as stated: after a deploy has created a pod, the next status, start,
\* stop or terminate addresses that pod
C20_ActsOnDeployedPod == ResolvedAfterDeploy => pod_id = "new_pod"

\* ---------------------------------------------------------------- deploy_pod: candidates and the create request

\* deploy_pod has received the catalogue and read the ceiling
CatalogueRead == max_price # 0

\* the offering is priced at or below the ceiling
WithinCeiling(gpu) ==
    EffectivePrice(gpu) # <<>> /\ EffectivePrice(gpu)[1] <= max_price

\* C21: when no offering of the catalogue has an effective price at or below
\* the ceiling, deploy_pod returns False at once and issues no create request
C21_NoAffordableOfferingFails ==
    (CatalogueRead /\ \A i \in DOMAIN gpu_types : ~WithinCeiling(gpu_types[i]))
        => /\ pc = "exited" /\ exit_via = "return"
           /\ success = <<FALSE>> /\ exit_code = <<1>>
           /\ Creates = <<>> /\ provider = NoRequest /\ new_pod = <<>>

C21_Witness ==
    /\ CatalogueRead /\ pc = "exited" /\ success = <<FALSE>>
    /\ Len(gpu_types) >= 2
    /\ \A i \in DOMAIN gpu_types : ~WithinCeiling(gpu_types[i])
    /\ \E i \in DOMAIN gpu_types : EffectivePrice(gpu_types[i]) # <<>>
    /\ Creates = <<>>

\* C22: deploy_pod returns with the step that gets the answer to the create
\* request; from its entry to its return it makes no status query and enters
\* no wait loop, and on success the run ends with the new pod recorded and,
\* in non-verbose mode, its id as the last token printed
C22_DeployReturnsWithoutWaiting ==
    /\ [][pc = "deploy_create" => pc' = "exited"]_vars
    /\ [](deploy_called =>
            /\ pc \in {"deploy_pod", "deploy_create", "exited"}
            /\ current_status = Unread
            /\ wait_site = Unread /\ elapsed = 0)
    /\ [](deploy_called /\ pc = "exited" /\ Creates # <<>>
             /\ RequestCanBeServed =>
            /\ success = <<TRUE>>
            /\ new_pod # <<>> /\ new_pod[1].id = "new_pod"
            /\ (~verbose => stdout[Len(stdout)] = Token("new_pod")))

C22_Witness ==
    /\ action = "deploy" /\ pc = "exited" /\ success = <<TRUE>>
    /\ ~verbose /\ stdout = <<Token("new_pod")>>
    /\ current_status = Unread /\ wait_site = Unread

\* the ids of the candidate list
CandidateIds == {affordable_gpus[k].id : k \in DOMAIN affordable_gpus}

\* the price at which candidate id is listed
ListedPrice(id) ==
    affordable_gpus[CHOOSE k \in DOMAIN affordable_gpus :
                        affordable_gpus[k].id = id].price

\* C25: an offering with a community spot price is a candidate exactly when
\* that price is at most the ceiling, whatever its secure spot price, and is
\* listed at the community price; an offering with only a secure spot price
\* is a candidate exactly when that is at most the ceiling, and is listed at
\* it; an offering with neither price is never a candidate
C25_CommunityPriceFirst ==
    CatalogueRead =>
        \A i \in DOMAIN gpu_types :
            LET gpu == gpu_types[i]
                community == gpu.communitySpotPrice
                secure == gpu.secureSpotPrice IN
            /\ community # <<>> =>
                   /\ i \in CandidateIds <=> community[1] <= max_price
                   /\ i \in CandidateIds => ListedPrice(i) = community[1]
            /\ community = <<>> /\ secure # <<>> =>
                   /\ i \in CandidateIds <=> secure[1] <= max_price
                   /\ i \in CandidateIds => ListedPrice(i) = secure[1]
            /\ community = <<>> /\ secure = <<>> => i \notin CandidateIds

\* a catalogue with an offering left out although its secure price is under
\* the ceiling, one listed at a community price above its secure price, and
\* one without prices
C25_Witness ==
    /\ pc = "deploy_create"
    /\ \E i \in DOMAIN gpu_types :
        /\ gpu_types[i].communitySpotPrice = <<50>>
        /\ gpu_types[i].secureSpotPrice = <<20>>
        /\ i \notin CandidateIds
    /\ \E i \in DOMAIN gpu_types :
        /\ gpu_types[i].communitySpotPrice = <<25>>
        /\ gpu_types[i].secureSpotPrice = <<20>>
        /\ i \in CandidateIds /\ ListedPrice(i) = 25
    /\ \E i \in DOMAIN gpu_types :
        /\ gpu_types[i].communitySpotPrice = <<>>
        /\ gpu_types[i].secureSpotPrice = <<>>

\* C28: a run issues at most one create request; it carries at most five
\* GPU type ids, those of the first five candidates in ascending price, and
\* no candidate ranked sixth or later is among them
C28_OneCreateWithAtMostFiveIds ==
    /\ Len(Creates) <= 1
    /\ \A c \in DOMAIN Creates :
        LET ids == Creates[c].gpuTypeIds IN
        /\ Len(ids) <= TopN /\ Len(ids) <= Len(affordable_gpus)
        /\ \A k \in DOMAIN ids : ids[k] = affordable_gpus[k].id
        /\ \A k \in DOMAIN ids : \A m \in DOMAIN affordable_gpus :
            k < m => affordable_gpus[k].price <= affordable_gpus[m].price
        /\ \A m \in DOMAIN affordable_gpus :
            m > TopN => \A k \in DOMAIN ids : ids[k] # affordable_gpus[m].id

C28_Witness ==
    /\ pc = "exited" /\ Len(affordable_gpus) = TopN + 1
    /\ Len(Creates) = 1 /\ Len(Creates[1].gpuTypeIds) = TopN
    /\ success = <<TRUE>>

\* ---------------------------------------------------------------- unknown statuses

\* a status read that is neither RUNNING, nor a stopped status, nor an error
\* status: an unmapped raw value such as CREATED, or no status at all
UnknownStatus(status) ==
    /\ status # Unread
    /\ status \notin {"RUNNING", "EXITED", "STOPPED"} \cup ErrorStatuses

\* C24 as stated: a wait loop ends only on a target status, on an error
\* status or at the timeout, and a method that has read an unknown status
\* does not go on to its start or stop request as if the pod were stopped
\* or running
C24_UnknownStatusNeverDecides ==
    /\ pc = "wait_done" =>
           hit_target \/ saw_error \/ elapsed >= DefaultTimeout
    /\ UnknownStatus(current_status) =>
           pc \notin {"start_request", "stop_request"}

\* ---------------------------------------------------------------- start_pod with the flag

\* start_pod has returned False
StartReturnedFailure ==
    /\ InStartPod /\ pc = "exited" /\ exit_via = "return"
    /\ success = <<FALSE>>

\* C26 as stated: with --deploy-new-if-needed set, start_pod returns False
\* only after deploy_pod was entered
C26_FlagAlwaysDeploysBeforeFailure ==
    StartReturnedFailure /\ deploy_new_if_needed => deploy_called

\* ---------------------------------------------------------------- the token of stop_pod

\* C27 as stated: when stop_pod has returned True in non-verbose mode, the
\* token it printed is EXITED or STOPPED
C27_StopPrintsStoppedStatus ==
    action = "stop" /\ pc = "exited" /\ success = <<TRUE>> /\ ~verbose =>
        stdout \in {<<Token("EXITED")>>, <<Token("STOPPED")>>}

\* ---------------------------------------------------------------- /api/ask: missing fields

\* the fields the body of the request lacks
MissingFields == {f \in Fields : body[f] = <<>>}

\* C23 as stated: a request whose body lacks user_principal, realm_principal
\* or question is answered 400 with an error naming a missing field, without
\* a call of the LLM and without a stored conversation
C23_MissingFieldAnswers400 ==
    ask_pc = "done" /\ MissingFields # {} =>
        /\ ask_response.code = 400
        /\ ask_response.error \in MissingFields
        /\ ~llm_called /\ ~conversation_stored

\* ---------------------------------------------------------------- the inactivity monitor

\* C29: the monitor calls stop_pod at most once; the call follows a check
\* that saw a positive INACTIVITY_TIMEOUT_SECONDS and an idle time of at
\* least that, and set shutdown_initiated; stop_pod runs only on behalf of
\* that call, and once it is over, however it ended, the monitor thread has
\* returned and stays so
C29_MonitorStopsPodAtMostOnce ==
    /\ [](stop_pod_calls <= 1)
    /\ [](stop_pod_calls = 1 =>
            /\ shutdown_initiated
            /\ stop_observed # <<>>
            /\ stop_observed[1].timeout > 0
            /\ stop_observed[1].idle >= stop_observed[1].timeout)
    /\ [](pc \notin {"idle", "exited"} => mon_pc = "in_stop")
    /\ [][mon_pc = "in_stop" /\ mon_pc' # "in_stop"
            => pc = "exited" /\ mon_pc' = "ended"]_vars
    /\ [][mon_pc = "ended" => mon_pc' = "ended"
                               /\ stop_pod_calls' = stop_pod_calls]_vars

C29_Witness ==
    /\ mon_pc = "ended" /\ stop_pod_calls = 1
    /\ pc = "exited" /\ success = <<FALSE>>
    /\ "stop" \in Ops
    /\ last_activity_time > 0

\* ---------------------------------------------------------------- the realm status scheduler

\* C30: while the scheduler is running at most one loop thread is alive to
\* fetch, whatever the order of start() and stop(), and while it is stopped
\* no thread begins a fetch cycle
C30_AtMostOneFetchingLoop ==
    /\ [](running => Cardinality(LiveLoops) <= 1)
    /\ [][~running => \A t \in Threads :
                         loop_pc'[t] = "fetch" => loop_pc[t] = "fetch"]_vars

====
